---------------------------- MODULE Spec2Model ----------------------------
(***************************************************************************)
(* Model of stockwatch_advisor.py: one run of main() reads a stockwatch    *)
(* state (net worth, houseguests with cost and projections, evictions),    *)
(* builds the integer linear program                                       *)
(*     minimize c @ x  such that  A_eq @ x == b_eq  and  0 <= x            *)
(* hands it to scipy.optimize.linprog and prints the advice.               *)
(*                                                                         *)
(* Money is exact here.  Every amount of money is a whole number of money  *)
(* quanta of half a cent (1/200 dollar), so that the program's 0.01 is 2   *)
(* and a net worth or a cost with a sub-cent part is an odd number.        *)
(* Objective coefficients are means of projections, which are fractions:   *)
(* they are kept as whole numbers of 1/MeanDen quantum.                    *)
(***************************************************************************)
EXTENDS Integers, Sequences, FiniteSets

VARIABLES
    yamlfile,     \* the loaded document: net_worth, houseguests, evictions
    verbose,      \* args.verbose
    pc,           \* position of main()
    c,            \* objective row, in 1/MeanDen quanta
    A_eq,         \* the equality matrix (one row), in quanta
    b_eq,         \* the equality target, in quanta
    bounds,       \* per variable <<lower, upper>>
    integrality,  \* per variable 1 = integer
    res,          \* what linprog returned
    out,          \* the lines printed so far
    err,          \* the exception that ended the run, or "none"
    run,          \* how many times the script has been invoked on this input
    prev          \* res of the previous invocation on this input

vars == <<yamlfile, verbose, pc, c, A_eq, b_eq, bounds, integrality, res, out,
          err, run, prev>>

-----------------------------------------------------------------------------
(* Bounds of the model *)

MaxAssets == 2
MaxBudget == 5
MaxRuns == 2

(* 0.01 dollar, in quanta *)
CashCost == 2
CashReturn == 2
HoldingsUnit == 2

None == << >>
NoBound == "None"

(* The houseguests a document may list (cost in quanta, projections in     *)
(* quanta).  Duplicates are allowed in a document.                         *)
Guests ==
    { [cost |-> 2,  projections |-> <<3>>],
      [cost |-> 4,  projections |-> <<5>>],
      [cost |-> 4,  projections |-> <<1, 2>>],
      [cost |-> 2,  projections |-> <<1>>],
      [cost |-> 2,  projections |-> <<1, 3>>],
      [cost |-> 3,  projections |-> <<4>>],
      [cost |-> 0,  projections |-> <<1>>],
      [cost |-> -2, projections |-> <<1>>],
      [cost |-> 2,  projections |-> << >>] }

Budgets == {-2} \cup (0..MaxBudget)

GuestLists == UNION { [1..n -> Guests] : n \in 0..MaxAssets }

-----------------------------------------------------------------------------
(* Arithmetic helpers *)

Abs(v) == IF v < 0 THEN -v ELSE v

Max(a, b) == IF a < b THEN b ELSE a

RECURSIVE SeqSum(_)
SeqSum(s) == IF s = << >> THEN 0 ELSE Head(s) + SeqSum(Tail(s))

Dot(a, x) == SeqSum([i \in 1..Len(a) |-> a[i] * x[i]])

(* Common denominator of all means: the least common multiple of the       *)
(* numbers of projections a houseguest may have.                           *)
SampleCounts == { Len(g.projections) : g \in Guests } \ {0}

RECURSIVE Product(_)
Product(S) == IF S = {} THEN 1
              ELSE LET v == CHOOSE w \in S : TRUE IN v * Product(S \ {v})

MeanDen ==
    CHOOSE d \in 1..Product(SampleCounts) :
        /\ \A k \in SampleCounts : d % k = 0
        /\ \A e \in 1..(d - 1) : \E k \in SampleCounts : e % k # 0

(* statistics.mean(data), times MeanDen.  Raises StatisticsError on empty  *)
(* data: callers test for that before.                                     *)
mean(data) == (SeqSum(data) * MeanDen) \div Len(data)


-----------------------------------------------------------------------------
(* The program built by main(), lines 40-54 *)

(* ObjectiveRow without the negation of the projections and of the 0.01 *)
ObjectiveRowUnnegated(houseguests) ==
    [i \in 1..(Len(houseguests) + 1) |->
        IF i <= Len(houseguests)
        THEN mean(houseguests[i].projections)
        ELSE CashReturn * MeanDen]

(* ObjectiveRow with holdings that return nothing *)
ObjectiveRowNoCash(houseguests) ==
    [i \in 1..(Len(houseguests) + 1) |->
        IF i <= Len(houseguests)
        THEN -mean(houseguests[i].projections)
        ELSE 0]

(* c: the negated mean projection of every houseguest, then -0.01 *)
ObjectiveRow(houseguests) ==
    [i \in 1..(Len(houseguests) + 1) |->
        IF i <= Len(houseguests)
        THEN -mean(houseguests[i].projections)
        ELSE -(CashReturn * MeanDen)]

(* ConstraintRow with a holdings coefficient of half a cent *)
ConstraintRowHalfCent(houseguests) ==
    [i \in 1..(Len(houseguests) + 1) |->
        IF i <= Len(houseguests) THEN houseguests[i].cost ELSE CashCost - 1]

(* A_eq[0]: the cost of every houseguest, then 0.01 *)
ConstraintRow(houseguests) ==
    [i \in 1..(Len(houseguests) + 1) |->
        IF i <= Len(houseguests) THEN houseguests[i].cost ELSE CashCost]

(* Target with the net worth rounded down to whole cents *)
TargetRounded(doc) == <<(doc.net_worth \div CashCost) * CashCost>>

(* b_eq *)
Target(doc) == <<doc.net_worth>>

(* VarBounds that let a quantity go one below 0 *)
VarBoundsBelowZero(houseguests) ==
    [i \in 1..(Len(houseguests) + 1) |-> <<-1, NoBound>>]

(* bounds: (0, None) for every stock and for the holdings *)
VarBounds(houseguests) ==
    [i \in 1..(Len(houseguests) + 1) |-> <<0, NoBound>>]

(* integrality: 1 for every stock and for the holdings *)
Integrality(houseguests) ==
    [i \in 1..(Len(houseguests) + 1) |-> 1]

-----------------------------------------------------------------------------
(* scipy.optimize.linprog(c, A_eq=, b_eq=, bounds=, method="highs",        *)
(* integrality=) for one equality row, every variable an integer with a    *)
(* lower bound and no upper bound: minimize c @ x such that                *)
(* A_eq @ x == b_eq and lower <= x.                                        *)

Lower(bnds) == [i \in 1..Len(bnds) |-> bnds[i][1]]

PosSum(row) == SeqSum([i \in 1..Len(row) |-> IF row[i] > 0 THEN row[i] ELSE 0])

NegSum(row) == SeqSum([i \in 1..Len(row) |-> IF row[i] < 0 THEN -row[i] ELSE 0])

RECURSIVE PosMax(_)
PosMax(row) == IF row = << >> THEN 0 ELSE Max(Head(row), PosMax(Tail(row)))

RECURSIVE NegMax(_)
NegMax(row) == IF row = << >> THEN 0 ELSE Max(-Head(row), NegMax(Tail(row)))

(* Every feasible point is a point of the search box plus a whole number   *)
(* of directions d >= 0 with row @ d = 0 (one variable of coefficient 0,   *)
(* or one of negative and one of positive coefficient), so the box holds a *)
(* feasible point whenever there is one, and an optimal one whenever no    *)
(* such direction lowers the objective.  y = x - lower.                    *)
Reach(row, b, lo) ==
    Abs(b - Dot(row, lo)) + PosSum(row) * NegMax(row) + NegSum(row) * PosMax(row)

BoxTop(row, b, lo) ==
    [i \in 1..Len(row) |->
        IF row[i] = 0 THEN 0 ELSE Reach(row, b, lo) \div Abs(row[i])]

RECURSIVE Box(_, _)
Box(top, k) ==
    IF k = 0 THEN { << >> }
    ELSE { Append(s, v) : s \in Box(top, k - 1), v \in 0..top[k] }

(* The points of the box that satisfy the equality: all variables but the  *)
(* last range over the box, the last one is what the equality leaves.      *)
FeasiblePoints(row, b, lo) ==
    LET m == Len(row)
        top == BoxTop(row, b, lo)
        rest(s) == (b - Dot(row, lo)) - SeqSum([i \in 1..(m - 1) |-> row[i] * s[i]])
        fits(s) == IF row[m] = 0 THEN rest(s) = 0
                   ELSE /\ rest(s) % Abs(row[m]) = 0
                        /\ rest(s) * row[m] >= 0
        last(s) == IF row[m] = 0 THEN 0 ELSE Abs(rest(s)) \div Abs(row[m])
    IN  { [i \in 1..m |-> lo[i] + (IF i < m THEN s[i] ELSE last(s))] :
            s \in { t \in Box(top, m - 1) : fits(t) } }

(* A direction that keeps the equality and lowers the objective for ever *)
ImprovingRay(cvec, row) ==
    \/ \E i \in 1..Len(row) : row[i] = 0 /\ cvec[i] < 0
    \/ \E i, j \in 1..Len(row) :
          /\ row[i] < 0
          /\ row[j] > 0
          /\ row[j] * cvec[i] - row[i] * cvec[j] < 0

(* The greatest common divisor of the coefficients that are not 0 *)
Gcd(row) ==
    LET mags == { Abs(row[i]) : i \in 1..Len(row) } \ {0}
        top == PosMax(row) + NegMax(row)
    IN  CHOOSE g \in 1..Max(top, 1) :
            /\ \A a \in mags : a % g = 0
            /\ \A h \in (g + 1)..top : \E a \in mags : a % h # 0

(* Is there a feasible point at all.  With coefficients of both signs the  *)
(* sums row @ y over y >= 0 are exactly the multiples of the gcd; without, *)
(* the box holds every feasible point.                                     *)
Feasible(row, b, lo) ==
    IF PosMax(row) > 0 /\ NegMax(row) > 0
    THEN (b - Dot(row, lo)) % Gcd(row) = 0
    ELSE FeasiblePoints(row, b, lo) # {}

NoSolution(status) == [status |-> status, x |-> None, fun |-> None]

(* linprog that stops at any feasible point *)
linprogAnyFeasible(cvec, Aeq, beq, bnds, integ) ==
    LET F == FeasiblePoints(Aeq[1], beq[1], Lower(bnds))
    IN  IF ~Feasible(Aeq[1], beq[1], Lower(bnds))
        THEN { NoSolution("infeasible") }
        ELSE IF ImprovingRay(cvec, Aeq[1]) THEN { NoSolution("unbounded") }
        ELSE { [status |-> "optimal", x |-> p, fun |-> Dot(cvec, p)] : p \in F }

(* The results linprog may return: any optimal point (HiGHS is free to     *)
(* pick among ties) with its objective value, or no point at all.          *)
linprog(cvec, Aeq, beq, bnds, integ) ==
    LET F == FeasiblePoints(Aeq[1], beq[1], Lower(bnds))
        best == CHOOSE v \in { Dot(cvec, q) : q \in F } :
                    \A w \in { Dot(cvec, q) : q \in F } : v <= w
    IN  IF ~Feasible(Aeq[1], beq[1], Lower(bnds))
        THEN { NoSolution("infeasible") }
        ELSE IF ImprovingRay(cvec, Aeq[1]) THEN { NoSolution("unbounded") }
        ELSE { [status |-> "optimal", x |-> p, fun |-> best] :
                 p \in { q \in F : Dot(cvec, q) = best } }

-----------------------------------------------------------------------------
(* What main() prints.  A line is its kind and the numbers it shows.       *)

Line(kind, i, n, from, to) ==
    [kind |-> kind, i |-> i, n |-> n, from |-> from, to |-> to]

(* line 69: a houseguest is listed when stock > 0 or args.verbose *)
ListsStock(stock, v) == stock > 0 \/ v

(* ListsHoldings that forgets the verbose flag *)
ListsHoldingsPositive(held, v) == held > 0

(* line 71: the holdings are listed when res.x[-1] > 0 or args.verbose *)
ListsHoldings(held, v) == held > 0 \/ v

(* lines 68-70, for the first k houseguests; the quantities are whole      *)
(* numbers here, which round(stock) leaves as they are                     *)
RECURSIVE StockLines(_, _, _, _, _)
StockLines(k, x, row, cvec, v) ==
    IF k = 0 THEN << >>
    ELSE StockLines(k - 1, x, row, cvec, v) \o
         (IF ListsStock(x[k], v)
          THEN << Line("stock", k, x[k], x[k] * row[k], x[k] * (-cvec[k])) >>
          ELSE << >>)

(* lines 71-72 *)
HoldingsLines(x, v) ==
    IF ListsHoldings(x[Len(x)], v)
    THEN << Line("holdings", 0, x[Len(x)], x[Len(x)] * HoldingsUnit,
                 x[Len(x)] * HoldingsUnit) >>
    ELSE << >>

-----------------------------------------------------------------------------
(* The run *)

NoRes == [status |-> "unsolved", x |-> None, fun |-> None]

Evictions == {1}

Init ==
    /\ yamlfile \in [net_worth : Budgets, houseguests : GuestLists,
                     evictions : Evictions]
    /\ verbose \in BOOLEAN
    /\ pc = "build"
    /\ c = << >>
    /\ A_eq = << << >> >>
    /\ b_eq = << >>
    /\ bounds = << >>
    /\ integrality = << >>
    /\ res = NoRes
    /\ out = << >>
    /\ err = "none"
    /\ run = 1
    /\ prev = NoRes

Raise(exception) ==
    /\ err' = exception
    /\ pc' = "exit"

(* lines 36-54: load the document and build c, A_eq, b_eq, bounds and      *)
(* integrality; statistics.mean raises on a houseguest with no projection  *)
Build ==
    /\ pc = "build"
    /\ LET houseguests == yamlfile.houseguests IN
       IF \E i \in 1..Len(houseguests) : houseguests[i].projections = << >>
       THEN /\ Raise("StatisticsError")
            /\ UNCHANGED <<c, A_eq, b_eq, bounds, integrality>>
       ELSE /\ c' = ObjectiveRow(houseguests)
            /\ A_eq' = << ConstraintRow(houseguests) >>
            /\ b_eq' = Target(yamlfile)
            /\ bounds' = VarBounds(houseguests)
            /\ integrality' = Integrality(houseguests)
            /\ pc' = "solve"
            /\ UNCHANGED err
    /\ UNCHANGED <<yamlfile, verbose, res, out, run, prev>>

(* line 56 *)
Solve ==
    /\ pc = "solve"
    /\ res' \in linprog(c, A_eq, b_eq, bounds, integrality)
    /\ pc' = "table"
    /\ UNCHANGED <<yamlfile, verbose, c, A_eq, b_eq, bounds, integrality, out,
                   err, run, prev>>

(* lines 58-64: the verbose table (its Expected Change column divides by   *)
(* the cost), then the net worth                                           *)
PrintNetWorth ==
    /\ pc = "table"
    /\ LET n == Len(yamlfile.houseguests) IN
       IF verbose /\ \E i \in 1..n : A_eq[1][i] = 0
       THEN /\ Raise("ZeroDivisionError")
            /\ UNCHANGED out
       ELSE /\ out' = out \o
                      (IF verbose THEN << Line("table", 0, n, 0, 0) >> ELSE << >>) \o
                      << Line("networth", 0, 0, b_eq[1], 0) >>
            /\ pc' = "advice"
            /\ UNCHANGED err
    /\ UNCHANGED <<yamlfile, verbose, c, A_eq, b_eq, bounds, integrality, res,
                   run, prev>>

(* lines 66-73: zip() raises TypeError when res.x is None *)
PrintAdvice ==
    /\ pc = "advice"
    /\ LET head == << Line("advice", 0, 0, 0, 0), Line("rule", 0, 0, 0, 0) >> IN
       IF res.x = None
       THEN /\ out' = out \o head
            /\ Raise("TypeError")
       ELSE /\ out' = out \o head \o
                      StockLines(Len(yamlfile.houseguests), res.x, A_eq[1], c, verbose) \o
                      HoldingsLines(res.x, verbose) \o
                      << Line("rule", 0, 0, 0, 0) >>
            /\ pc' = "value"
            /\ UNCHANGED err
    /\ UNCHANGED <<yamlfile, verbose, c, A_eq, b_eq, bounds, integrality, res,
                   run, prev>>

(* line 75: the percentage divides by the net worth *)
PrintValue ==
    /\ pc = "value"
    /\ IF b_eq[1] = 0
       THEN /\ Raise("ZeroDivisionError")
            /\ UNCHANGED out
       ELSE /\ out' = Append(out, Line("value", 0, -res.fun - b_eq[1] * MeanDen,
                                       b_eq[1] * MeanDen, -res.fun))
            /\ pc' = "evictions"
            /\ UNCHANGED err
    /\ UNCHANGED <<yamlfile, verbose, c, A_eq, b_eq, bounds, integrality, res,
                   run, prev>>

(* line 77: the ratio divides by the number of houseguests *)
PrintEvictions ==
    /\ pc = "evictions"
    /\ IF Len(yamlfile.houseguests) = 0
       THEN /\ Raise("ZeroDivisionError")
            /\ UNCHANGED out
       ELSE /\ out' = Append(out, Line("evictions", 0, yamlfile.evictions,
                                       Len(yamlfile.houseguests), 0))
            /\ pc' = "exit"
            /\ UNCHANGED err
    /\ UNCHANGED <<yamlfile, verbose, c, A_eq, b_eq, bounds, integrality, res,
                   run, prev>>

(* lines 79-80: the script is run once more on the same document; the new  *)
(* process starts from nothing, prev remembers what the last one solved    *)
Invoke ==
    /\ pc = "exit"
    /\ run < MaxRuns
    /\ run' = run + 1
    /\ prev' = res
    /\ pc' = "build"
    /\ c' = << >>
    /\ A_eq' = << << >> >>
    /\ b_eq' = << >>
    /\ bounds' = << >>
    /\ integrality' = << >>
    /\ res' = NoRes
    /\ out' = << >>
    /\ err' = "none"
    /\ UNCHANGED <<yamlfile, verbose>>

Next ==
    \/ Build
    \/ Solve
    \/ PrintNetWorth
    \/ PrintAdvice
    \/ PrintValue
    \/ PrintEvictions
    \/ Invoke

Spec == Init /\ [][Next]_vars

(* the status the process ends with *)
ExitStatus == IF err = "none" THEN 0 ELSE 1

-----------------------------------------------------------------------------
(* What the properties speak of, computed from the document alone *)

Houseguests == yamlfile.houseguests

NumGuests == Len(Houseguests)

(* what an allocation spends and holds, in quanta *)
Spent(x) ==
    SeqSum([i \in 1..NumGuests |-> x[i] * Houseguests[i].cost])
    + x[NumGuests + 1] * CashCost

(* the expected value of an allocation, in 1/MeanDen quanta *)
ExpectedValue(x) ==
    SeqSum([i \in 1..NumGuests |-> x[i] * mean(Houseguests[i].projections)])
    + x[NumGuests + 1] * CashReturn * MeanDen

(* every vector of non-negative integers that spends the net worth exactly, *)
(* by enumeration (no quantity exceeds the net worth when costs are > 0)   *)
Allocations ==
    { q \in [1..(NumGuests + 1) -> 0..Max(yamlfile.net_worth, 0)] :
        Spent(q) = yamlfile.net_worth }

WholeCent(v) == v % CashCost = 0

InvalidInput ==
    \/ NumGuests = 0
    \/ \E i \in 1..NumGuests : Houseguests[i].cost <= 0
    \/ yamlfile.net_worth < 0

Kinds == { out[k].kind : k \in 1..Len(out) }

ReportKinds == {"table", "networth", "advice", "rule", "stock", "holdings",
                "value", "evictions"}

(* the Advice block has been printed to its closing rule *)
AdvicePrinted ==
    /\ res.status = "optimal"
    /\ Cardinality({ k \in 1..Len(out) : out[k].kind = "rule" }) = 2

StockListed(i) ==
    \E k \in 1..Len(out) :
        out[k].kind = "stock" /\ out[k].i = i /\ out[k].n = res.x[i]

HoldingsListed ==
    \E k \in 1..Len(out) :
        out[k].kind = "holdings" /\ out[k].n = res.x[NumGuests + 1]

-----------------------------------------------------------------------------
(* C1: whenever the solve is feasible, the units bought times their costs  *)
(* plus the cents held equal the net worth exactly.                        *)
BudgetExact ==
    res.status = "optimal" => Spent(res.x) = yamlfile.net_worth

BudgetExactWitness ==
    /\ res.status = "optimal"
    /\ NumGuests = 2
    /\ res.x[1] > 0
    /\ res.x[NumGuests + 1] > 0
    /\ pc = "exit"

(* C2: whenever the solve is feasible, no vector of non-negative integers  *)
(* that spends the net worth exactly has a greater expected value than the *)
(* returned one, and the reported value is that maximum.                   *)
Optimal ==
    (pc = "table" /\ res.status = "optimal") =>
        /\ res.x \in Allocations
        /\ \A q \in Allocations : ExpectedValue(q) <= ExpectedValue(res.x)
        /\ -res.fun = ExpectedValue(res.x)

(* Scenario A: two units of the cheaper houseguest beat one of the dearer *)
OptimalWitness ==
    /\ pc = "table"
    /\ res.status = "optimal"
    /\ Houseguests = << [cost |-> 2, projections |-> <<3>>],
                        [cost |-> 4, projections |-> <<5>>] >>
    /\ yamlfile.net_worth = 4
    /\ res.x = <<2, 0, 0>>
    /\ -res.fun = 6 * MeanDen

(* C3: an empty houseguest list, a cost that is not positive or a negative *)
(* net worth is rejected before linprog is called: the run never reaches   *)
(* the solve and prints nothing of the report.                             *)
InvalidRejected ==
    InvalidInput =>
        /\ res = NoRes
        /\ out = << >>

(* C4: when the solve ends infeasible or unbounded, nothing of the report  *)
(* has been printed and the run ends with a status that is not 0.          *)
NoPartialReport ==
    res.status \in {"infeasible", "unbounded"} =>
        /\ Kinds \cap ReportKinds = {}
        /\ (pc = "exit" => ExitStatus # 0)

(* C5 as claimed: a net worth with a sub-cent part is infeasible whatever  *)
(* the houseguests, and no allocation is returned.                         *)
SubCentInfeasibleAny ==
    (res.status # "unsolved" /\ ~WholeCent(yamlfile.net_worth)) =>
        /\ res.status = "infeasible"
        /\ res.x = None

(* C5 amended: a net worth with a sub-cent part is infeasible when every   *)
(* cost is a whole number of cents: linprog gets the net worth as it is,   *)
(* returns no allocation, no stock or holdings line is printed and the run *)
(* ends with an error.                                                     *)
SubCentInfeasible ==
    (/\ ~WholeCent(yamlfile.net_worth)
     /\ \A i \in 1..NumGuests : WholeCent(Houseguests[i].cost)) =>
        /\ b_eq # << >> => b_eq[1] = yamlfile.net_worth
        /\ res.status # "unsolved" => (res.status = "infeasible" /\ res.x = None)
        /\ Kinds \cap {"stock", "holdings", "value"} = {}
        /\ (pc = "exit" => ExitStatus # 0)

SubCentInfeasibleWitness ==
    /\ yamlfile.net_worth = 3
    /\ NumGuests = 2
    /\ \A i \in 1..NumGuests : Houseguests[i].cost = 2
    /\ res.status = "infeasible"
    /\ pc = "exit"
    /\ err = "TypeError"

(* C6: a net worth of 0 with houseguests of positive cost (and at least    *)
(* one projection each) runs to the end without error, with a complete     *)
(* report, nothing bought, nothing held and an expected value of 0.        *)
ZeroBudgetSolves ==
    (/\ yamlfile.net_worth = 0
     /\ NumGuests > 0
     /\ \A i \in 1..NumGuests :
           Houseguests[i].cost > 0 /\ Houseguests[i].projections # << >>
     /\ pc = "exit") =>
        /\ err = "none"
        /\ res.status = "optimal"
        /\ \A i \in 1..(NumGuests + 1) : res.x[i] = 0
        /\ res.fun = 0
        /\ {"networth", "advice", "value", "evictions"} \subseteq Kinds

(* C7: whenever the solve is feasible every quantity is a non-negative     *)
(* integer, and every variable was given the lower bound 0, no upper bound *)
(* and the integer mark.                                                   *)
NonNegativeIntegers ==
    res.status = "optimal" =>
        /\ \A i \in 1..(NumGuests + 1) : res.x[i] \in Nat
        /\ Len(bounds) = NumGuests + 1
        /\ \A i \in 1..(NumGuests + 1) : bounds[i] = <<0, NoBound>>
        /\ integrality = [i \in 1..(NumGuests + 1) |-> 1]

NonNegativeIntegersWitness ==
    /\ res.status = "optimal"
    /\ NumGuests = 2
    /\ Houseguests[1].cost * MeanDen > mean(Houseguests[1].projections)
    /\ res.x[2] > 0
    /\ pc = "exit"

(* C8: when every houseguest's mean projection is below its cost, costs    *)
(* and net worth being whole cents and the net worth not negative, nothing *)
(* is bought, the whole net worth is held and the expected value is the    *)
(* net worth.                                                              *)
AllLosers ==
    /\ NumGuests > 0
    /\ \A i \in 1..NumGuests :
          /\ Houseguests[i].projections # << >>
          /\ WholeCent(Houseguests[i].cost)
          /\ mean(Houseguests[i].projections) < Houseguests[i].cost * MeanDen
    /\ WholeCent(yamlfile.net_worth)
    /\ yamlfile.net_worth >= 0

LosersNotBought ==
    (AllLosers /\ res.status # "unsolved") =>
        /\ res.status = "optimal"
        /\ \A i \in 1..NumGuests : res.x[i] = 0
        /\ res.x[NumGuests + 1] * CashCost = yamlfile.net_worth
        /\ -res.fun = yamlfile.net_worth * MeanDen

LosersNotBoughtWitness ==
    /\ AllLosers
    /\ NumGuests = 2
    /\ yamlfile.net_worth = 4
    /\ res.status = "optimal"
    /\ res.x = <<0, 0, 2>>
    /\ pc = "exit"
    /\ err = "none"

(* C9 as claimed: once the advice is printed the holdings line is there,   *)
(* verbose or not, and a stock line is there exactly for the houseguests   *)
(* with a positive quantity (not verbose) or for all (verbose).            *)
HoldingsAlwaysListed ==
    (AdvicePrinted /\ ~InvalidInput) =>
        /\ HoldingsListed
        /\ \A i \in 1..NumGuests : StockListed(i) <=> (res.x[i] > 0 \/ verbose)

(* C9 amended: once the advice is printed, the holdings line is there      *)
(* exactly when the holdings are positive or the run is verbose, and a     *)
(* stock line exactly for the houseguests with a positive quantity (not    *)
(* verbose) or for all (verbose).                                          *)
ListedWhenPositiveOrVerbose ==
    AdvicePrinted =>
        /\ HoldingsListed <=> (res.x[NumGuests + 1] > 0 \/ verbose)
        /\ \A i \in 1..NumGuests : StockListed(i) <=> (res.x[i] > 0 \/ verbose)

ListedWitness ==
    /\ AdvicePrinted
    /\ verbose
    /\ NumGuests = 2
    /\ res.x[1] > 0
    /\ res.x[2] = 0
    /\ res.x[NumGuests + 1] = 0
    /\ HoldingsListed
    /\ StockListed(2)

=============================================================================
